---------------------------- MODULE Spec2Model ----------------------------
(***************************************************************************)
(* Next Image Manipulator (nim): the palette codec (NIP), the JASC-PAL     *)
(* reader, the colour quantizer, the image converter (NIM) and the command *)
(* dispatch of src/src/main.cc and src/src/cmdline.cc.                     *)
(*                                                                         *)
(* Files are sequences of bytes (0..255).  An object the code reads before *)
(* it was ever written (a u8 left untouched by a failed stream read, the   *)
(* index x when the nearest-entry search assigns nothing) takes a value    *)
(* chosen nondeterministically from Indeterminate.                         *)
(***************************************************************************)
EXTENDS Integers, Sequences, FiniteSets, TLC

\* ------------------------------------------------------------------------
\* Bounds of the model
\* ------------------------------------------------------------------------

\* Largest width of the small images.
MaxWidth == 3

\* Largest height of the small images.
MaxHeight == 2

\* A decoder dimension outside the unsigned 16-bit range of the NIM header.
OversizeDim == 65536

\* The values an uninitialised byte can hold.
Indeterminate == 0..255

\* ------------------------------------------------------------------------
\* Integer helpers: C++ operators on unsigned values
\* ------------------------------------------------------------------------

RECURSIVE BitAnd(_, _)
BitAnd(a, b) ==
    IF a = 0 \/ b = 0 THEN 0
    ELSE (a % 2) * (b % 2) + 2 * BitAnd(a \div 2, b \div 2)

RECURSIVE BitOr(_, _)
BitOr(a, b) ==
    IF a = 0 THEN b
    ELSE IF b = 0 THEN a
    ELSE (IF a % 2 = 1 \/ b % 2 = 1 THEN 1 ELSE 0) + 2 * BitOr(a \div 2, b \div 2)

Shl(a, k) == a * (2 ^ k)

Shr(a, k) == a \div (2 ^ k)

\* Conversion to u8.
U8(x) == x % 256

\* Conversion to u16 (the NIM header fields).
U16(x) == x % 65536

Abs(x) == IF x < 0 THEN -x ELSE x

\* ------------------------------------------------------------------------
\* Colour quantizer
\* ------------------------------------------------------------------------

\* kColour_3bit[i] of the code is kColour_3bit[i + 1] here.
kColour_3bit == <<0, 36, 73, 109, 146, 182, 219, 255>>

kColour_2bit == <<0, 85, 170, 255>>

\* A scan that also replaces the index at equal distance.
IsCloser_Ties(diff, minDiff) == diff <= minDiff

\* The replacement test of the scan, `diff < minDiff`.
IsCloser(diff, minDiff) == diff < minDiff

\* The scan of gfxReduce3 / gfxReduce2 from index i on.
RECURSIVE gfxReduceLoop(_, _, _, _, _)
gfxReduceLoop(v, table, i, minIdx, minDiff) ==
    IF i >= Len(table) THEN minIdx
    ELSE LET diff == Abs(v - table[i + 1]) IN
         IF diff = 0 THEN i
         ELSE IF IsCloser(diff, minDiff)
              THEN gfxReduceLoop(v, table, i + 1, i, diff)
              ELSE gfxReduceLoop(v, table, i + 1, minIdx, minDiff)

gfxReduce3(v) == U8(gfxReduceLoop(v, kColour_3bit, 0, 0, 255))

gfxReduce2(v) == U8(gfxReduceLoop(v, kColour_2bit, 0, 0, 255))

\* ------------------------------------------------------------------------
\* Colour and Palette
\* ------------------------------------------------------------------------

Colour(red, green, blue) == [m_red |-> red, m_green |-> green, m_blue |-> blue]

\* Palette::Palette(): the RRRGGGBB ramp, transparent colour 0xe3.
DefaultColour(i) ==
    Colour(Shr(BitAnd(i, 224), 5),
           Shr(BitAnd(i, 28), 2),
           U8(Shl(BitAnd(i, 3), 1) + BitOr(Shr(BitAnd(i, 2), 1), BitAnd(i, 1))))

DefaultPalette ==
    [m_colours |-> [k \in 1..256 |-> DefaultColour(k - 1)],
     m_transparentColour |-> 227]

numColours(p) == Len(p.m_colours)

getTransColour(p) == p.m_transparentColour

setTransparent(p, index) == [p EXCEPT !.m_transparentColour = index]


\* ------------------------------------------------------------------------
\* Input streams (ifstream): data, read position, eofbit and failbit
\* ------------------------------------------------------------------------

OpenStream(data) == [data |-> data, pos |-> 0, eof |-> FALSE, fail |-> FALSE]

good(f) == ~f.eof /\ ~f.fail

\* The element of a one-element set.  The({e(x) : x \in {d}}) is e with x
\* naming the value of d, which is computed once.
The(S) == CHOOSE x \in S : TRUE

\* f.read(buf, n): the bytes stored into buf; fewer than n when the stream
\* ends first (failbit and eofbit are then set), none when the stream is
\* not good.
read(f, n) ==
    IF ~good(f) THEN [f |-> [f EXCEPT !.fail = TRUE], bytes |-> <<>>]
    ELSE IF Len(f.data) - f.pos >= n
    THEN [f |-> [f EXCEPT !.pos = f.pos + n],
          bytes |-> SubSeq(f.data, f.pos + 1, f.pos + n)]
    ELSE [f |-> [f EXCEPT !.pos = Len(f.data), !.eof = TRUE, !.fail = TRUE],
          bytes |-> SubSeq(f.data, f.pos + 1, Len(f.data))]

\* f.read((char *)&v, 1) into a u8 whose content before the call is old:
\* a failed read leaves the object as it was.
ReadU8(f, old) ==
    The({[f |-> r.f, v |-> IF Len(r.bytes) = 1 THEN r.bytes[1] ELSE old] :
         r \in {read(f, 1)}})

\* f.seekg(0, ios::beg): clears eofbit, then repositions unless fail().
seekg0(f) ==
    IF f.fail THEN [f EXCEPT !.eof = FALSE]
    ELSE [f EXCEPT !.eof = FALSE, !.pos = 0]

isspace(c) == c \in {9, 10, 11, 12, 13, 32}

isdigit(c) == c >= 48 /\ c <= 57

\* The position after the white space that starts at pos.
RECURSIVE SkipWs(_, _)
SkipWs(data, pos) ==
    IF pos < Len(data) /\ isspace(data[pos + 1]) THEN SkipWs(data, pos + 1) ELSE pos

\* The position after the run of non-space characters that starts at pos.
RECURSIVE SkipWord(_, _)
SkipWord(data, pos) ==
    IF pos < Len(data) /\ ~isspace(data[pos + 1]) THEN SkipWord(data, pos + 1) ELSE pos

\* The position after the run of digits that starts at pos.
RECURSIVE SkipDigits(_, _)
SkipDigits(data, pos) ==
    IF pos < Len(data) /\ isdigit(data[pos + 1]) THEN SkipDigits(data, pos + 1) ELSE pos

\* The sentry of a formatted extraction: a stream that is not good gets
\* failbit; otherwise leading white space is skipped, and reaching the end
\* of the stream while skipping sets eofbit and failbit.
Sentry(f) ==
    IF ~good(f) THEN [f |-> [f EXCEPT !.fail = TRUE], ok |-> FALSE]
    ELSE The({IF q >= Len(f.data)
              THEN [f |-> [f EXCEPT !.pos = q, !.eof = TRUE, !.fail = TRUE],
                    ok |-> FALSE]
              ELSE [f |-> [f EXCEPT !.pos = q], ok |-> TRUE] :
              q \in {SkipWs(f.data, f.pos)}})

\* f >> line (std::string): line keeps its old content when the sentry fails.
ExtractWord(f) ==
    The({[f |-> [f EXCEPT !.pos = q, !.eof = (q >= Len(f.data))],
          v |-> SubSeq(f.data, f.pos + 1, q)] :
         q \in {SkipWord(f.data, f.pos)}})

ExtractString(f, old) ==
    The({IF ~s.ok THEN [f |-> s.f, v |-> old] ELSE ExtractWord(s.f) :
         s \in {Sentry(f)}})

\* One more digit d after the magnitude acc = [v, over]: over is 0 while the
\* magnitude fits an int, 1 when it is exactly 2^31, 2 when it is larger.
DigitStep(acc, d) ==
    IF acc.over > 0 THEN [v |-> 2147483647, over |-> 2]
    ELSE IF acc.v < 214748364 \/ (acc.v = 214748364 /\ d <= 7)
    THEN [v |-> 10 * acc.v + d, over |-> 0]
    ELSE IF acc.v = 214748364 /\ d = 8 THEN [v |-> 2147483647, over |-> 1]
    ELSE [v |-> 2147483647, over |-> 2]

\* The magnitude of a run of decimal digits, as [v, over].
RECURSIVE DigitsValue(_)
DigitsValue(ds) ==
    IF ds = <<>> THEN [v |-> 0, over |-> 0]
    ELSE DigitStep(DigitsValue(SubSeq(ds, 1, Len(ds) - 1)), ds[Len(ds)] - 48)

\* The int of sign and magnitude m, clamped to the range of int.
Clamp(negative, m) ==
    IF negative
    THEN IF m.over = 0 THEN -m.v ELSE -2147483647 - 1
    ELSE m.v

\* The magnitude m, with the sign given, is outside the range of int.
OutOfRange(negative, m) == IF negative THEN m.over = 2 ELSE m.over >= 1

\* The position after an optional sign at the position of f.
AfterSign(f) == IF f.data[f.pos + 1] \in {43, 45} THEN f.pos + 1 ELSE f.pos

\* The result of num_get once the digits up to q were read as m: no digit
\* stores 0 and sets failbit, a value outside int stores the nearest int and
\* sets failbit.
ParsedInt(f, q, m) ==
    IF q = AfterSign(f)
    THEN [f |-> [f EXCEPT !.pos = q, !.fail = TRUE, !.eof = (q >= Len(f.data))],
          v |-> 0, kept |-> FALSE]
    ELSE [f |-> [f EXCEPT !.pos = q, !.eof = (q >= Len(f.data)),
                          !.fail = OutOfRange(f.data[f.pos + 1] = 45, m)],
          v |-> Clamp(f.data[f.pos + 1] = 45, m), kept |-> FALSE]

\* num_get on a stream positioned at a character that is not white space.
ParseInt(f) ==
    The({The({ParsedInt(f, q, m) :
              m \in {DigitsValue(SubSeq(f.data, AfterSign(f) + 1, q))}}) :
         q \in {SkipDigits(f.data, AfterSign(f))}})

\* f >> v on an int v holding old: `kept` tells that v still holds old.
ExtractInt(f, old) ==
    The({IF ~s.ok THEN [f |-> s.f, v |-> old, kept |-> TRUE] ELSE ParseInt(s.f) :
         s \in {Sentry(f)}})

\* The position after an optional sign at pos.
AfterSignAt(line, pos) ==
    IF pos < Len(line) /\ line[pos + 1] \in {43, 45} THEN pos + 1 ELSE pos

\* stoi on a line whose number starts at p0 (after white space and sign),
\* its digits ending at q: [thrown, v], thrown naming the exception when
\* there is no digit or the value is outside int, and <<>> otherwise.
StoiAt(line, negative, p0, q, m) ==
    IF q = p0 THEN [thrown |-> <<"std::invalid_argument">>, v |-> 0]
    ELSE IF OutOfRange(negative, m) THEN [thrown |-> <<"std::out_of_range">>, v |-> 0]
    ELSE [thrown |-> <<>>, v |-> Clamp(negative, m)]

\* stoi(line): leading white space is skipped.
stoi(line) ==
    The({The({StoiAt(line, p0 > 0 /\ line[p0] = 45, p0, q,
                     DigitsValue(SubSeq(line, p0 + 1, q))) :
              q \in {SkipDigits(line, p0)}}) :
         p0 \in {AfterSignAt(line, SkipWs(line, 0))}})


\* ------------------------------------------------------------------------
\* Counted loops
\* ------------------------------------------------------------------------
\* A loop for (i = lo; i < hi; ++i) is an operator XLoop(st, lo, hi, ...)
\* that runs the iterations of [lo, hi) in ascending order on the loop state
\* st: those of [lo, mid) first, then those of [mid, hi) on the state they
\* leave.  A loop that appends to an output yields [st, out], out being the
\* bytes appended, in order.

Mid(lo, hi) == (lo + hi) \div 2

\* ------------------------------------------------------------------------
\* Palette::Palette(ifstream&): NIP and JASC-PAL readers
\* ------------------------------------------------------------------------

\* "NIP0", the bytes of the tag '0PIN' in memory.
TagNIP0 == <<78, 73, 80, 48>>

\* "JASC-PAL"
TokenJASC == <<74, 65, 83, 67, 45, 80, 65, 76>>

\* "0100"
Token0100 == <<48, 49, 48, 48>>

\* The indeterminate contents of the objects the reader leaves uninitialised,
\* one value for each: the four bytes of the tag, numColours, flags, p1, p2,
\* the ints red, green and blue.
ReaderGarbage ==
    [tag : [1..4 -> Indeterminate], numColours : Indeterminate,
     flags : Indeterminate, p1 : Indeterminate, p2 : Indeterminate,
     red : Int, green : Int, blue : Int, stale : BOOLEAN]

\* The content of a local object declared without initialiser inside a loop
\* body: the value the previous iteration left in it (u.stale) or the
\* garbage of the object.
LoopLocal(u, garbage, previous) == IF u.stale THEN previous ELSE garbage

\* One iteration of the NIP entry loop: st = [f, colours, p1, p2], p1 and p2
\* being what the previous iteration left in these objects.
NipColour(p1, p2) ==
    Colour(Shr(BitAnd(p1, 224), 5), Shr(BitAnd(p1, 28), 2),
           BitOr(Shl(BitAnd(p1, 3), 1), BitAnd(p2, 1)))

\* The second byte of an entry, read after r1 = [f, v] gave the first.
NipSecond(r1, previous, flags, u) ==
    IF BitAnd(flags, 1) # 0
    THEN ReadU8(r1.f, LoopLocal(u, u.p2, previous))
    ELSE [f |-> r1.f, v |-> BitOr(Shr(BitAnd(r1.v, 2), 1), BitAnd(r1.v, 1))]

NipEntry(st, flags, u) ==
    The({The({[f |-> r2.f, colours |-> Append(st.colours, NipColour(r1.v, r2.v)),
               p1 |-> r1.v, p2 |-> r2.v] :
              r2 \in {NipSecond(r1, st.p2, flags, u)}}) :
         r1 \in {ReadU8(st.f, LoopLocal(u, u.p1, st.p1))}})

\* for (int i = 0; i < actualNumColours; ++i)
RECURSIVE NipLoop(_, _, _, _, _)
NipLoop(st, lo, hi, flags, u) ==
    IF lo >= hi THEN st
    ELSE IF hi = lo + 1 THEN NipEntry(st, flags, u)
    ELSE The({NipLoop(a, Mid(lo, hi), hi, flags, u) :
              a \in {NipLoop(st, lo, Mid(lo, hi), flags, u)}})

\* The .NIP branch, entered with the stream after the tag.
\* A reader that takes the count byte as it is.
ActualNumColours_NoSentinel(numCols) == numCols

\* The entry count for a count byte: 0 stands for 256.
ActualNumColours(numCols) == IF numCols # 0 THEN numCols ELSE 256

\* The entry loop and the transparent index, rn = [f, v] and rf = [f, v]
\* being the reads of numColours and of flags.
ReadNIPEntries(rn, rf, u) ==
    The({[p |-> [m_colours |-> body.colours,
                 m_transparentColour |-> ReadU8(body.f, 227).v],
          ub |-> body.f.fail, cerr |-> <<>>, thrown |-> <<>>] :
         body \in {NipLoop([f |-> rf.f, colours |-> <<>>, p1 |-> u.p1, p2 |-> u.p2],
                           0, ActualNumColours(rn.v), rf.v, u)}})

ReadNIP(f, u) ==
    The({The({ReadNIPEntries(rn, rf, u) : rf \in {ReadU8(rn.f, u.flags)}}) :
         rn \in {ReadU8(f, u.numColours)}})

\* The triple loop of the JASC-PAL branch, prev being the red, green and
\* blue of the previous iteration: `invalid` when a channel is out of 0..255
\* (the constructor returns), ub when an int was used that no extraction had
\* stored.
RECURSIVE PalLoop(_, _, _, _, _, _, _)
\* The rest of an iteration, r, g and b being the three extractions and ub2
\* telling whether an earlier iteration used an int that no extraction had
\* stored; the range test stops at the first channel out of range.
PalTriple(r, g, b, i, num, colours, ub2, u) ==
    IF r.v < 0 \/ r.v > 255 \/ g.v < 0 \/ g.v > 255 \/ b.v < 0 \/ b.v > 255
    THEN [colours |-> colours, invalid |-> TRUE,
          ub |-> ub2 \/ r.kept
                    \/ (r.v \in 0..255 /\ (g.kept \/ (g.v \in 0..255 /\ b.kept)))]
    ELSE The({IF i + 1 = num
              THEN [colours |-> cs, invalid |-> FALSE,
                    ub |-> ub2 \/ r.kept \/ g.kept \/ b.kept]
              ELSE PalLoop(b.f, i + 1, num, cs, <<r.v, g.v, b.v>>,
                           ub2 \/ r.kept \/ g.kept \/ b.kept, u) :
              cs \in {Append(colours, Colour(gfxReduce3(U8(r.v)),
                                             gfxReduce3(U8(g.v)),
                                             gfxReduce3(U8(b.v))))}})

PalLoop(f, i, num, colours, prev, ub, u) ==
    IF f.eof THEN [colours |-> colours, invalid |-> FALSE, ub |-> ub]
    ELSE The({The({The({PalTriple(r, g, b, i, num, colours, ub, u) :
                        b \in {ExtractInt(g.f, LoopLocal(u, u.blue, prev[3]))}}) :
                   g \in {ExtractInt(r.f, LoopLocal(u, u.green, prev[2]))}}) :
              r \in {ExtractInt(f, LoopLocal(u, u.red, prev[1]))}})

\* The comparison of the declared count with the number of colours read.
CountMismatch(num, size) == num # size

\* The JASC-PAL branch, entered with the stream rewound.
PalResult(num, loop) ==
    IF loop.invalid
    THEN [p |-> [m_colours |-> <<>>, m_transparentColour |-> 227],
          ub |-> loop.ub, cerr |-> <<"Invalid .pal file">>, thrown |-> <<>>]
    ELSE IF CountMismatch(num, Len(loop.colours))
    THEN [p |-> [m_colours |-> <<>>, m_transparentColour |-> 227],
          ub |-> loop.ub,
          cerr |-> <<"Invalid number of colours found in the palette">>,
          thrown |-> <<>>]
    ELSE [p |-> [m_colours |-> loop.colours, m_transparentColour |-> 227],
          ub |-> loop.ub, cerr |-> <<>>, thrown |-> <<>>]

\* The triples, l3 = [f, v] being the third token and num its value.
ReadPALLoop(l3, num, u) ==
    The({PalResult(num, loop) :
         loop \in {PalLoop(l3.f, 0, num, <<>>, <<u.red, u.green, u.blue>>, FALSE, u)}})

\* The count line and the triples: an exception of stoi leaves the
\* constructor.
ReadPALTriples(l3, u) ==
    The({IF n.thrown # <<>>
         THEN [p |-> [m_colours |-> <<>>, m_transparentColour |-> 227],
               ub |-> FALSE, cerr |-> <<>>, thrown |-> n.thrown]
         ELSE ReadPALLoop(l3, n.v, u) :
         n \in {stoi(l3.v)}})

ReadPAL(f, u) ==
    The({The({The({IF l1.v # TokenJASC \/ l2.v # Token0100
                   THEN [p |-> [m_colours |-> <<>>, m_transparentColour |-> 227],
                         ub |-> FALSE, cerr |-> <<>>, thrown |-> <<>>]
                   ELSE ReadPALTriples(l3, u) :
                   l3 \in {ExtractString(l2.f, l2.v)}}) :
              l2 \in {ExtractString(l1.f, l1.v)}}) :
         l1 \in {ExtractString(f, <<>>)}})

\* The tag as the comparison sees it: the bytes read, then what the
\* uninitialised object held in the bytes after them.
TagRead(bytes, u) == bytes \o SubSeq(u.tag, Len(bytes) + 1, 4)

\* Palette::Palette(ifstream& f) on a file holding data: the palette
\* constructed (p), the messages written to cerr, and whether an
\* indeterminate value was read (ub).
PaletteFromStream(data, u) ==
    The({The({[p |-> r.p, cerr |-> r.cerr, ub |-> r.ub \/ Len(rt.bytes) < 4,
               thrown |-> r.thrown] :
              r \in {IF TagRead(rt.bytes, u) = TagNIP0
                     THEN ReadNIP(rt.f, u)
                     ELSE ReadPAL(seekg0(rt.f), u)}}) :
         rt \in {read(OpenStream(data), 4)}})

\* ------------------------------------------------------------------------
\* Palette::write
\* ------------------------------------------------------------------------

\* The byte count of the header: m_colours.size() & 0xff.
HeaderCount(size) == U8(BitAnd(size, 255))

\* The bytes written for one colour.
WriteEntry(colour, extended) ==
    LET p1 == U8(BitOr(BitOr(Shl(colour.m_red, 5), Shl(colour.m_green, 2)),
                       Shr(colour.m_blue, 1)))
        p2 == BitAnd(colour.m_blue, 1)
    IN  IF extended THEN <<p1, p2>> ELSE <<p1>>

\* for (const auto& colour : m_colours): the bytes written for the colours
\* lo + 1 .. hi.
RECURSIVE WriteLoop(_, _, _, _)
WriteLoop(colours, lo, hi, extended) ==
    IF lo >= hi THEN <<>>
    ELSE IF hi = lo + 1 THEN WriteEntry(colours[lo + 1], extended)
    ELSE WriteLoop(colours, lo, Mid(lo, hi), extended)
             \o WriteLoop(colours, Mid(lo, hi), hi, extended)

\* Palette::write(f, extended): the bytes written to f.
write(p, extended) ==
    TagNIP0 \o <<HeaderCount(Len(p.m_colours)), IF extended THEN 1 ELSE 0>>
        \o WriteLoop(p.m_colours, 0, Len(p.m_colours), extended)
        \o <<p.m_transparentColour>>


\* ------------------------------------------------------------------------
\* process_image: classification, packing, NIM output
\* ------------------------------------------------------------------------

\* A pixel of the decoded buffer: its four bytes in memory order, which a
\* little-endian u32 load turns into r + (g << 8) + (b << 16) + (a << 24).
Pixel(r, g, b, a) == <<r, g, b, a>>

\* (*s & mask) >> shift: the byte of the u32 at bit position shift.
Channel(px, shift) == px[(shift \div 8) + 1]

\* img[k] of the decoded buffer: the image's pixel sequence pix repeated.
PixelAt(image, k) == image.pix[(k % Len(image.pix)) + 1]

\* The palette entries the search skips.
SkipEntry(p, i) == i = getTransColour(p)

\* One iteration of the nearest-entry search: st = [d, x, set], set telling
\* that x was assigned.
SearchStep(p, st, i, r, g, b) ==
    IF SkipEntry(p, i) THEN st
    ELSE LET c == p.m_colours[i + 1]
             dx == kColour_3bit[c.m_red + 1] - r
             dy == kColour_3bit[c.m_green + 1] - g
             dz == kColour_3bit[c.m_blue + 1] - b
             dist == dx * dx + dy * dy + dz * dz
         IN  IF dist < st.d THEN [d |-> dist, x |-> U8(i), set |-> TRUE] ELSE st

\* for (int i = 0; i < p.numColours(); ++i)
RECURSIVE SearchLoop(_, _, _, _, _, _, _)
SearchLoop(st, lo, hi, p, r, g, b) ==
    IF lo >= hi THEN st
    ELSE IF hi = lo + 1 THEN SearchStep(p, st, lo, r, g, b)
    ELSE The({SearchLoop(a, Mid(lo, hi), hi, p, r, g, b) :
              a \in {SearchLoop(st, lo, Mid(lo, hi), p, r, g, b)}})

\* The search for an opaque pixel, x0 being the content of x before it.
Search(p, r, g, b, x0) ==
    SearchLoop([d |-> 256 * 256 * 256, x |-> x0, set |-> FALSE], 0, numColours(p),
               p, r, g, b)

\* The index of a pixel: the transparent colour unless alpha is 255.
Classify(p, px, x0) ==
    LET a == Channel(px, 24)
        b == Channel(px, 16)
        g == Channel(px, 8)
        r == Channel(px, 0)
    IN  IF a # 255 THEN [x |-> getTransColour(p), set |-> TRUE]
        ELSE LET n == Search(p, r, g, b, x0) IN [x |-> n.x, set |-> n.set]

\* The byte pushed for an odd column in 4-bit mode: idx = idx + x.
PackNibbles(idx, x) == U8(idx + x)

\* A packing that pushes one byte for every column in either mode.
Emit_EveryColumn(bit4, st, col, c) ==
    [st |-> [idx |-> st.idx, x |-> c.x, s |-> st.s + 1, ub |-> st.ub \/ ~c.set],
     out |-> <<c.x>>, xs |-> <<c.x>>]

\* The packing of one pixel whose classification is c = [x, set].
Emit(bit4, st, col, c) ==
    IF bit4
    THEN IF col % 2 = 0
         THEN [st |-> [idx |-> U8(Shl(c.x, 4)), x |-> c.x, s |-> st.s + 1,
                       ub |-> st.ub \/ ~c.set],
               out |-> <<>>, xs |-> <<c.x>>]
         ELSE [st |-> [idx |-> PackNibbles(st.idx, c.x), x |-> c.x, s |-> st.s + 1,
                       ub |-> st.ub \/ ~c.set],
               out |-> <<PackNibbles(st.idx, c.x)>>, xs |-> <<c.x>>]
    ELSE [st |-> [idx |-> st.idx, x |-> c.x, s |-> st.s + 1, ub |-> st.ub \/ ~c.set],
          out |-> <<c.x>>, xs |-> <<c.x>>]

\* One iteration of the column loop: st = [idx, x, s, ub], x being what the
\* previous iteration left in x, s the pixels consumed.  The result holds
\* the bytes pushed to dst (out) and the index the pixel was given (xs).
PixelStep(p, bit4, image, st, col, g) ==
    The({Emit(bit4, st, col, c) :
         c \in {Classify(p, PixelAt(image, st.s), IF g.stale THEN st.x ELSE g.v)}})

\* for (int col = 0; col < w; ++col)
RECURSIVE ColLoop(_, _, _, _, _, _, _)
ColLoop(st, lo, hi, p, bit4, image, g) ==
    IF lo >= hi THEN [st |-> st, out |-> <<>>, xs |-> <<>>]
    ELSE IF hi = lo + 1 THEN PixelStep(p, bit4, image, st, lo, g)
    ELSE The({The({[st |-> b.st, out |-> a.out \o b.out, xs |-> a.xs \o b.xs] :
                   b \in {ColLoop(a.st, Mid(lo, hi), hi, p, bit4, image, g)}}) :
              a \in {ColLoop(st, lo, Mid(lo, hi), p, bit4, image, g)}})

\* One iteration of the row loop: idx starts at 0.
RowStep(p, bit4, image, st, row, g) ==
    ColLoop([st EXCEPT !.idx = 0], 0, image.w, p, bit4, image, g)

\* for (int row = 0; row < h; ++row)
RECURSIVE RowLoop(_, _, _, _, _, _, _)
RowLoop(st, lo, hi, p, bit4, image, g) ==
    IF lo >= hi THEN [st |-> st, out |-> <<>>, xs |-> <<>>]
    ELSE IF hi = lo + 1 THEN RowStep(p, bit4, image, st, lo, g)
    ELSE The({The({[st |-> b.st, out |-> a.out \o b.out, xs |-> a.xs \o b.xs] :
                   b \in {RowLoop(a.st, Mid(lo, hi), hi, p, bit4, image, g)}}) :
              a \in {RowLoop(st, lo, Mid(lo, hi), p, bit4, image, g)}})

\* The conversion loop: dst and the final loop state.
ConvertImage(p, bit4, image, g) ==
    RowLoop([idx |-> 0, x |-> g.v, s |-> 0, ub |-> FALSE], 0, image.h,
            p, bit4, image, g)

\* The indeterminate content of x: a value, or what the previous pixel left.
PixelGarbage == [v : Indeterminate, stale : BOOLEAN]

\* Two bytes, little endian.
LE16(v) == <<v % 256, (v \div 256) % 256>>

\* "NIM0"
TagNIM0 == <<78, 73, 77, 48>>

\* The NIM file: header (width and height converted to u16) and dst.
NimFile(w, h, dst) == TagNIM0 \o LE16(U16(w)) \o LE16(U16(h)) \o dst

\* 4-bit preconditions without the test of the width.
Check4Bit_NoWidth(p, w) ==
    IF numColours(p) > 16 THEN <<"Invalid palette for 4-bit mode">> ELSE <<>>

\* The 4-bit preconditions: the message of the one that fails, if any.
Check4Bit(p, w) ==
    IF numColours(p) > 16 THEN <<"Invalid palette for 4-bit mode">>
    ELSE IF w % 2 = 1 THEN <<"Width must be a multiple of 2 for 4-bit mode">>
    ELSE <<>>

\* The condition of the assert on dst.size().
BufferAssert(bit4, size, w, h) ==
    (~bit4 /\ size = w * h) \/ (bit4 /\ size = (w * h) \div 2)

NoFile == [exists |-> FALSE, data |-> <<>>]

File(data) == [exists |-> TRUE, data |-> data]

\* process_image(p, cmdLine) up to the assert, with stbi_load giving image
\* and g the indeterminate content of x: `stop` tells that the function
\* returned result (or that the assert failed) before opening the output.
Rejected(msg) ==
    [stop |-> TRUE, result |-> 1, cerr |-> msg, dst |-> <<>>, xs |-> <<>>,
     s |-> 0, ub |-> FALSE, asserted |-> TRUE]

Converted(conv, ok) ==
    [stop |-> ~ok, result |-> 0, cerr |-> <<>>, dst |-> conv.out, xs |-> conv.xs,
     s |-> conv.st.s, ub |-> conv.st.ub, asserted |-> ok]

ConvertPhase(p, flag4, image, g) ==
    IF ~image.loaded THEN Rejected(<<"Could not load image">>)
    ELSE IF flag4 /\ Check4Bit(p, image.w) # <<>> THEN Rejected(Check4Bit(p, image.w))
    ELSE The({Converted(conv, BufferAssert(flag4, Len(conv.out), image.w, image.h)) :
              conv \in {ConvertImage(p, flag4, image, g)}})

\* The rest of process_image: the output file creatable or not.
OutputPhase(c, image, canCreate) ==
    IF c.stop THEN [result |-> c.result, cerr |-> c.cerr, out |-> NoFile]
    ELSE IF canCreate
    THEN [result |-> 0, cerr |-> <<>>, out |-> File(NimFile(image.w, image.h, c.dst))]
    ELSE [result |-> 1, cerr |-> <<"Unable to open">>, out |-> NoFile]

\* ------------------------------------------------------------------------
\* indexStr
\* ------------------------------------------------------------------------

\* One character of the hex branch: t <<= 4; t += digit, in u8.
HexStep(t, c) ==
    LET t1 == IF c >= 48 /\ c <= 57 THEN U8(U8(Shl(t, 4)) + (c - 48)) ELSE t
        t2 == IF c >= 97 /\ c <= 102 THEN U8(U8(Shl(t1, 4)) + (c - 97 + 10)) ELSE t1
        t3 == IF c >= 65 /\ c <= 70 THEN U8(U8(Shl(t2, 4)) + (c - 65 + 10)) ELSE t2
    IN  t3

RECURSIVE HexLoop(_, _, _)
HexLoop(str, k, t) ==
    IF k > Len(str) THEN t ELSE HexLoop(str, k + 1, HexStep(t, str[k]))

\* indexStr(str) for a non-empty str, as [thrown, v]: `$` starts a hex
\* string, anything else goes through stoi.
indexStr(str) ==
    IF str[1] = 36 THEN [thrown |-> <<>>, v |-> HexLoop(str, 1, 0)]
    ELSE The({[thrown |-> n.thrown, v |-> U8(n.v)] : n \in {stoi(str)}})

\* ------------------------------------------------------------------------
\* Inputs: command lines, palette files, decoded images
\* ------------------------------------------------------------------------

\* The decimal text of n >= 0.
RECURSIVE Dec(_)
Dec(n) == IF n < 10 THEN <<48 + n>> ELSE Dec(n \div 10) \o <<48 + (n % 10)>>

\* The digits of 2147483648, one more than the largest int.
BeyondInt == <<50, 49, 52, 55, 52, 56, 51, 54, 52, 56>>

\* The lines "r g b" of a JASC-PAL body, joined by new lines.
RECURSIVE PalLines(_)
PalLines(triples) ==
    IF triples = <<>> THEN <<>>
    ELSE LET t == triples[1]
             line == Dec(t[1]) \o <<32>> \o Dec(t[2]) \o <<32>> \o Dec(t[3])
         IN  IF Len(triples) = 1 THEN line ELSE line \o <<10>> \o PalLines(Tail(triples))

\* A JASC-PAL text declaring count colours and holding the triples given,
\* with or without a new line after the last one.
PalText(count, triples, newline) ==
    TokenJASC \o <<10>> \o Token0100 \o <<10>> \o Dec(count) \o <<10>>
        \o PalLines(triples) \o (IF newline THEN <<10>> ELSE <<>>)

\* A palette of n colours taken from the RRRGGGBB ramp at the step given.
RampPalette(n, step, trans) ==
    [m_colours |-> [k \in 1..n |-> DefaultColour(((k - 1) * step) % 256)],
     m_transparentColour |-> trans]

\* The palettes the NIP files of the model are written from.
FilePalettes ==
    { RampPalette(1, 1, 0), RampPalette(2, 255, 227), RampPalette(3, 73, 1),
      RampPalette(16, 17, 5), RampPalette(17, 15, 227), DefaultPalette }

NipFiles == { write(q, e) : q \in FilePalettes, e \in BOOLEAN }

\* NIP files cut short: every proper prefix that still holds the tag and
\* the count, of a 2-colour file in each layout.
Prefixes(data) == { SubSeq(data, 1, n) : n \in 5..(Len(data) - 1) }

TruncatedNipFiles ==
    UNION { Prefixes(write(RampPalette(2, 255, 5), e)) : e \in BOOLEAN }

PalFiles ==
    { PalText(2, <<<<0, 0, 0>>, <<255, 100, 18>>>>, TRUE),
      PalText(2, <<<<0, 0, 0>>, <<255, 100, 18>>>>, FALSE),
      PalText(3, <<<<0, 0, 0>>, <<255, 100, 18>>>>, TRUE),
      PalText(3, <<<<0, 0, 0>>, <<255, 100, 18>>>>, FALSE),
      PalText(1, <<<<0, 0, 0>>, <<255, 100, 18>>>>, TRUE),
      PalText(2, <<<<0, 0, 0>>, <<256, 100, 18>>>>, TRUE),
      PalText(2, <<<<0, 0, 0>>>>, TRUE) \o BeyondInt \o <<32, 53, 32, 53, 10>> }

\* Files in neither format: one of other bytes, a JASC-PAL text of another
\* version, and one whose count is the word "abc".
OtherFiles ==
    { <<1, 2, 3, 4, 5>>, TokenJASC \o <<10, 48, 49, 48, 49, 10>>,
      TokenJASC \o <<10>> \o Token0100 \o <<10, 97, 98, 99, 10, 48, 32, 48, 32, 48, 10>> }

\* What opening the palette file can give.
PaletteInputs ==
    {NoFile} \cup { File(d) : d \in NipFiles \cup TruncatedNipFiles \cup PalFiles \cup OtherFiles }

\* Pixel runs the images repeat: opaque pixels that match a ramp colour,
\* an opaque pixel half way between two levels, pixels of alpha 0 and 254.
PixelRuns ==
    { <<Pixel(0, 0, 0, 255)>>,
      <<Pixel(9, 200, 30, 0)>>,
      <<Pixel(255, 255, 255, 255), Pixel(0, 0, 0, 255)>>,
      <<Pixel(0, 0, 0, 254), Pixel(18, 54, 255, 255)>>,
      <<Pixel(255, 0, 0, 255), Pixel(1, 2, 3, 0), Pixel(0, 0, 255, 255)>> }

NoImage == [loaded |-> FALSE, w |-> 0, h |-> 0, pix |-> <<>>]

Image(w, h, pix) == [loaded |-> TRUE, w |-> w, h |-> h, pix |-> pix]

\* What stbi_load can give: failure, a small image, or an image (of pixels
\* that are not opaque) one of whose dimensions exceeds 16 bits.
SmallImages == { Image(w, h, pix) : w \in 1..MaxWidth, h \in 1..MaxHeight, pix \in PixelRuns }

OversizeImages ==
    { Image(OversizeDim, 1, <<Pixel(9, 200, 30, 0)>>),
      Image(1, OversizeDim, <<Pixel(9, 200, 30, 0)>>) }

\* Largest seed of the palettes the codec is run on.
MaxSeed == 3

\* A colour with channels in 0..7, blue taking every value whatever red is.
CodecColour(k, seed) ==
    Colour((k * (seed + 1)) % 8, ((k * (seed + 1)) \div 8) % 8, (k + seed) % 8)

\* The palettes the codec is run on: 1, 2, 16, 255 and 256 entries.
CodecPalettes ==
    { [m_colours |-> [k \in 1..n |-> CodecColour(k, seed)], m_transparentColour |-> trans] :
      n \in {1, 2, 16, 255, 256}, seed \in 0..MaxSeed, trans \in {0, 5, 227, 255} }

\* --transparent values: absent, "1", "$0F", "300", "abc".
TransparentStrings ==
    { <<>>, <<49>>, <<36, 48, 70>>, <<51, 48, 48>>, <<97, 98, 99>> }

\* The parsed command line: the command, the number of parameters, the
\* single-letter flags, whether --pal names a file, the --transparent value.
NoCmdLine == [command |-> "", numParams |-> 0, flags |-> {}, pal |-> FALSE, transparent |-> <<>>]

PaletteCmdLines ==
    [command : {"palette"}, numParams : 0..2, flags : SUBSET {"9", "d"},
     pal : {FALSE}, transparent : TransparentStrings]

ImageCmdLines ==
    [command : {"image"}, numParams : 0..2, flags : SUBSET {"4"},
     pal : BOOLEAN, transparent : {<<>>}]

OtherCmdLines ==
    [command : {"", "help"}, numParams : 0..1, flags : {{}},
     pal : {FALSE}, transparent : {<<>>}]

CmdLines == PaletteCmdLines \cup ImageCmdLines \cup OtherCmdLines


\* ------------------------------------------------------------------------
\* Command handlers
\* ------------------------------------------------------------------------

EmptyPalette == [m_colours |-> <<>>, m_transparentColour |-> 227]

\* The garbage tried first; no other is tried when the run never reads it.
Garbage0 ==
    [tag |-> <<0, 0, 0, 0>>, numColours |-> 0, flags |-> 0, p1 |-> 0, p2 |-> 0,
     red |-> 0, green |-> 0, blue |-> 0, stale |-> TRUE]

\* flags and p2 are used through their bit 0 only (flags & 1, p2 & 1): one
\* value for each value of the bit.
IndeterminateBit0 == {0, 1}

\* red, green and blue are used through the range test and gfxReduce3 only:
\* one int on each side of 0..255 and one for each result of gfxReduce3.
IndeterminateInt == {-1, 256} \cup {kColour_3bit[i] : i \in 1..8}

\* flags & 1 can be non-zero on data: flags is garbage, or odd in the file.
MayReadP2(data) == Len(data) < 6 \/ data[6] % 2 = 1

\* The .NIP branch on a file holding data: numColours and flags are read
\* from the file when it holds them, p2 is read when flags & 1, and what
\* the previous iteration left is the garbage itself as long as no entry
\* byte was read.
NipGarbage(data) ==
    {[Garbage0 EXCEPT !.numColours = n, !.flags = fl, !.p1 = a, !.p2 = b,
                      !.stale = st] :
       n \in (IF Len(data) < 5 THEN Indeterminate ELSE {0}),
       fl \in (IF Len(data) < 6 THEN IndeterminateBit0 ELSE {0}),
       a \in Indeterminate,
       b \in (IF MayReadP2(data) THEN IndeterminateBit0 ELSE {0}),
       st \in (IF Len(data) < 7 THEN {TRUE} ELSE BOOLEAN)}

\* The text branch.
PalGarbage ==
    {[Garbage0 EXCEPT !.red = r, !.green = g, !.blue = b, !.stale = st] :
       r \in IndeterminateInt, g \in IndeterminateInt, b \in IndeterminateInt,
       st \in BOOLEAN}

\* A tag of fewer than 4 bytes: the bytes no read stored either complete
\* "NIP0", and the .NIP branch runs on a stream that has failed, or they do
\* not, and the text branch extracts nothing from it.
TagGarbage(data) ==
    {Garbage0} \cup
    (IF data = SubSeq(TagNIP0, 1, Len(data))
     THEN {[g EXCEPT !.tag = TagNIP0] : g \in NipGarbage(data)}
     ELSE {})

\* The garbage a run on data is tried with: for the objects it reads, one
\* value for every outcome.
GarbageFor(data) ==
    IF ~PaletteFromStream(data, Garbage0).ub THEN {Garbage0}
    ELSE IF Len(data) < 4 THEN TagGarbage(data)
    ELSE IF SubSeq(data, 1, 4) = TagNIP0 THEN NipGarbage(data)
    ELSE PalGarbage

\* write_palette(p, outPath, extended), the output file creatable or not.
write_palette(p, extended, canCreate) ==
    IF ~canCreate THEN [result |-> 1, cerr |-> <<"Unable to create file">>, out |-> NoFile]
    ELSE [result |-> 0, cerr |-> <<>>, out |-> File(write(p, extended))]

\* The transparent colour palette_handler passes to setTransparent, as
\* [thrown, v].
TransColour(cl) ==
    IF cl.transparent # <<>> THEN indexStr(cl.transparent)
    ELSE [thrown |-> <<>>, v |-> 227]

\* An exception nobody catches: std::terminate writes its message and the
\* process aborts, the handler returning nothing.
Terminated(thrown, opened) ==
    [call |-> FALSE, result |-> 0, p |-> EmptyPalette, ub |-> FALSE, thrown |-> TRUE,
     cerr |-> <<"terminate called after throwing an instance of">> \o thrown]

\* palette_handler once Palette p(f) was constructed as r with transparent
\* colour tc.
PaletteLoaded(r, tc) ==
    IF r.thrown # <<>> THEN Terminated(r.thrown, TRUE)
    ELSE IF numColours(r.p) = 0
    THEN [call |-> FALSE, result |-> 1,
          cerr |-> r.cerr \o <<"Unable to load the palette file">>,
          p |-> setTransparent(r.p, tc), ub |-> r.ub, thrown |-> FALSE]
    ELSE [call |-> TRUE, result |-> 0, cerr |-> r.cerr,
          p |-> setTransparent(r.p, tc), ub |-> r.ub, thrown |-> FALSE]

\* palette_handler(cmdLine) up to its call of write_palette: file is what
\* opening param(0) gives, u the garbage of the reader; `call` tells whether
\* write_palette is called, with palette p, `thrown` whether an exception
\* left the handler.
palette_handler(cl, file, u) ==
    IF cl.numParams # 1
    THEN [call |-> FALSE, result |-> 1, cerr |-> <<"Invalid parameters">>,
          p |-> EmptyPalette, ub |-> FALSE, thrown |-> FALSE]
    ELSE IF TransColour(cl).thrown # <<>>
    THEN Terminated(TransColour(cl).thrown, FALSE)
    ELSE IF "d" \in cl.flags
    THEN [call |-> TRUE, result |-> 0, cerr |-> <<>>,
          p |-> setTransparent(DefaultPalette, TransColour(cl).v), ub |-> FALSE,
          thrown |-> FALSE]
    ELSE IF ~file.exists
    THEN [call |-> FALSE, result |-> 1, cerr |-> <<"Unable to open file">>,
          p |-> EmptyPalette, ub |-> FALSE, thrown |-> FALSE]
    ELSE PaletteLoaded(PaletteFromStream(file.data, u), TransColour(cl).v)

\* The handlers open the palette file only on these command lines.
PaletteOpens(cl) ==
    cl.numParams = 1 /\ TransColour(cl).thrown = <<>> /\ "d" \notin cl.flags

ImageOpens(cl) == cl.numParams = 1 /\ cl.pal

\* image_handler once Palette p(f) was constructed as r.
ImageLoaded(r) ==
    IF r.thrown # <<>> THEN Terminated(r.thrown, TRUE)
    ELSE [call |-> TRUE, result |-> 0, cerr |-> r.cerr, p |-> r.p, ub |-> r.ub,
          thrown |-> FALSE]

\* image_handler(cmdLine) up to its call of process_image: `call` tells
\* whether process_image is called, with palette p, `thrown` whether an
\* exception left the handler.
image_handler(cl, file, u) ==
    IF cl.numParams # 1
    THEN [call |-> FALSE, result |-> 1, cerr |-> <<"Invalid parameters">>,
          p |-> EmptyPalette, ub |-> FALSE, thrown |-> FALSE]
    ELSE IF cl.pal
    THEN IF file.exists
         THEN ImageLoaded(PaletteFromStream(file.data, u))
         ELSE [call |-> FALSE, result |-> 1, cerr |-> <<"Cannot file">>,
               p |-> EmptyPalette, ub |-> FALSE, thrown |-> FALSE]
    ELSE [call |-> TRUE, result |-> 0, cerr |-> <<>>, p |-> DefaultPalette, ub |-> FALSE,
          thrown |-> FALSE]

\* main after dispatch(): the message for -1; main has no return statement,
\* and flowing off the end of main returns 0.
MainStatus(dispatched) == 0

MainMessage(dispatched) == IF dispatched = -1 THEN <<"Unknown command">> ELSE <<>>

\* ------------------------------------------------------------------------
\* The program as a state machine
\* ------------------------------------------------------------------------

VARIABLES
    pc,          \* where the process is: "main", a handler, "dispatched", "exit",
                 \* "aborted" by the assertion, "terminated" by an exception
    cmdLine,     \* the parsed command line
    palFile,     \* the palette file the handler opened
    image,       \* what stbi_load returned
    p,           \* the Palette of the handler
    dst,         \* the encoded pixel buffer
    xs,          \* the index each pixel was given, in the order consumed
    s,           \* the number of pixels process_image consumed
    result,      \* the value dispatch() returned: <<>> before, <<v>> after
    exitStatus,  \* the value main returned: <<>> before, <<v>> after
    outNip,      \* the .nip file written
    outNim,      \* the .nim file written
    cerr,        \* the error messages written
    ub,          \* an indeterminate value was read
    quant,       \* the quantizer applied to one value
    codec        \* a palette written and read back

program == <<pc, cmdLine, palFile, image, p, dst, xs, s, result, exitStatus,
             outNip, outNim, cerr, ub>>

vars == <<pc, cmdLine, palFile, image, p, dst, xs, s, result, exitStatus,
          outNip, outNim, cerr, ub, quant, codec>>

QuantIdle == [stage |-> "idle", v |-> 0, r3 |-> 0, r2 |-> 0]

CodecIdle == [stage |-> "idle", pal |-> EmptyPalette, extended |-> FALSE,
              bytes |-> <<>>, parsed |-> EmptyPalette]

\* The process at `at`, before main has run.
ProgramAt(at, cl) ==
    /\ pc = at
    /\ cmdLine = cl
    /\ palFile = NoFile
    /\ image = NoImage
    /\ p = EmptyPalette
    /\ dst = <<>>
    /\ xs = <<>>
    /\ s = 0
    /\ result = <<>>
    /\ exitStatus = <<>>
    /\ outNip = NoFile
    /\ outNim = NoFile
    /\ cerr = <<>>
    /\ ub = FALSE

Init ==
    /\ \E cl \in CmdLines : ProgramAt("main", cl)
    /\ quant = QuantIdle
    /\ codec = CodecIdle

\* CmdLine::dispatch: the handler registered for the command, or -1.
Dispatch ==
    /\ pc = "main"
    /\ IF cmdLine.command = "palette"
       THEN pc' = "palette_handler" /\ UNCHANGED result
       ELSE IF cmdLine.command = "image"
       THEN pc' = "image_handler" /\ UNCHANGED result
       ELSE pc' = "dispatched" /\ result' = <<-1>>
    /\ UNCHANGED <<cmdLine, palFile, image, p, dst, xs, s, exitStatus, outNip, outNim,
                   cerr, ub, quant, codec>>

PaletteHandler ==
    /\ pc = "palette_handler"
    /\ \E file \in (IF PaletteOpens(cmdLine) THEN PaletteInputs ELSE {NoFile}) :
         \E u \in (IF file.exists THEN GarbageFor(file.data) ELSE {Garbage0}) :
            \E r \in {palette_handler(cmdLine, file, u)} :
            /\ palFile' = file
            /\ p' = r.p
            /\ cerr' = cerr \o r.cerr
            /\ ub' = r.ub
            /\ IF r.thrown
               THEN pc' = "terminated" /\ UNCHANGED result
               ELSE IF r.call
               THEN pc' = "write_palette" /\ UNCHANGED result
               ELSE pc' = "dispatched" /\ result' = <<r.result>>
    /\ UNCHANGED <<cmdLine, image, dst, xs, s, exitStatus, outNip, outNim, quant, codec>>

WritePalette ==
    /\ pc = "write_palette"
    /\ \E canCreate \in BOOLEAN :
         \E w \in {write_palette(p, "9" \in cmdLine.flags, canCreate)} :
         /\ outNip' = w.out
         /\ cerr' = cerr \o w.cerr
         /\ result' = <<w.result>>
    /\ pc' = "dispatched"
    /\ UNCHANGED <<cmdLine, palFile, image, p, dst, xs, s, exitStatus, outNim, ub,
                   quant, codec>>

ImageHandler ==
    /\ pc = "image_handler"
    /\ \E file \in (IF ImageOpens(cmdLine) THEN PaletteInputs ELSE {NoFile}) :
         \E u \in (IF file.exists THEN GarbageFor(file.data) ELSE {Garbage0}) :
            \E r \in {image_handler(cmdLine, file, u)} :
            /\ palFile' = file
            /\ p' = r.p
            /\ cerr' = cerr \o r.cerr
            /\ ub' = r.ub
            /\ IF r.thrown
               THEN pc' = "terminated" /\ UNCHANGED result
               ELSE IF r.call
               THEN pc' = "process_image" /\ UNCHANGED result
               ELSE pc' = "dispatched" /\ result' = <<r.result>>
    /\ UNCHANGED <<cmdLine, image, dst, xs, s, exitStatus, outNip, outNim, quant, codec>>

\* The images tried: the oversize ones with the built-in palette only.
ImagesFor(cl) ==
    {NoImage} \cup SmallImages \cup (IF cl.pal THEN {} ELSE OversizeImages)

PixelGarbage0 == [v |-> 0, stale |-> TRUE]

ProcessImage ==
    /\ pc = "process_image"
    /\ \E img \in ImagesFor(cmdLine) :
         \E c0 \in {ConvertPhase(p, "4" \in cmdLine.flags, img, PixelGarbage0)} :
            \E g \in (IF c0.ub THEN PixelGarbage ELSE {PixelGarbage0}) :
               \E c \in {IF g = PixelGarbage0 THEN c0
                         ELSE ConvertPhase(p, "4" \in cmdLine.flags, img, g)} :
                  \E canCreate \in (IF c.stop THEN {TRUE} ELSE BOOLEAN) :
                     \E r \in {OutputPhase(c, img, canCreate)} :
                        /\ image' = img
                        /\ dst' = c.dst
                        /\ xs' = c.xs
                        /\ s' = c.s
                        /\ cerr' = cerr \o r.cerr
                        /\ outNim' = r.out
                        /\ ub' = (ub \/ c.ub)
                        /\ IF c.asserted
                           THEN pc' = "dispatched" /\ result' = <<r.result>>
                           ELSE pc' = "aborted" /\ UNCHANGED result
    /\ UNCHANGED <<cmdLine, palFile, p, exitStatus, outNip, quant, codec>>

\* main after dispatch() returned.
MainReturn ==
    /\ pc = "dispatched"
    /\ cerr' = cerr \o MainMessage(result[1])
    /\ exitStatus' = <<MainStatus(result[1])>>
    /\ pc' = "exit"
    /\ UNCHANGED <<cmdLine, palFile, image, p, dst, xs, s, result, outNip, outNim,
                   ub, quant, codec>>

Next == Dispatch \/ PaletteHandler \/ WritePalette \/ ImageHandler \/ ProcessImage \/ MainReturn

Spec == Init /\ [][Next]_vars

\* ------------------------------------------------------------------------
\* The quantizer on its own
\* ------------------------------------------------------------------------

InitReduce ==
    /\ ProgramAt("idle", NoCmdLine)
    /\ quant \in {[stage |-> "input", v |-> v, r3 |-> 0, r2 |-> 0] : v \in 0..255}
    /\ codec = CodecIdle

Reduce3 ==
    /\ quant.stage = "input"
    /\ quant' = [quant EXCEPT !.stage = "reduced3", !.r3 = gfxReduce3(quant.v)]
    /\ UNCHANGED <<program, codec>>

Reduce2 ==
    /\ quant.stage = "reduced3"
    /\ quant' = [quant EXCEPT !.stage = "reduced", !.r2 = gfxReduce2(quant.v)]
    /\ UNCHANGED <<program, codec>>

NextReduce == Reduce3 \/ Reduce2

SpecReduce == InitReduce /\ [][NextReduce]_vars

\* ------------------------------------------------------------------------
\* The NIP codec on its own: Palette::write, then Palette::Palette(ifstream&)
\* ------------------------------------------------------------------------

InitCodec ==
    /\ ProgramAt("idle", NoCmdLine)
    /\ quant = QuantIdle
    /\ codec \in {[stage |-> "built", pal |-> q, extended |-> e, bytes |-> <<>>,
                    parsed |-> EmptyPalette] : q \in CodecPalettes, e \in BOOLEAN}

CodecWrite ==
    /\ codec.stage = "built"
    /\ codec' = [codec EXCEPT !.stage = "written",
                              !.bytes = write(codec.pal, codec.extended)]
    /\ UNCHANGED <<program, quant>>

CodecParse ==
    /\ codec.stage = "written"
    /\ \E u \in GarbageFor(codec.bytes) :
         codec' = [codec EXCEPT !.stage = "parsed",
                                !.parsed = PaletteFromStream(codec.bytes, u).p]
    /\ UNCHANGED <<program, quant>>

NextCodec == CodecWrite \/ CodecParse

SpecCodec == InitCodec /\ [][NextCodec]_vars

\* ------------------------------------------------------------------------
\* Properties
\* ------------------------------------------------------------------------

\* The handler has returned to main (or main has returned).
Returned == pc \in {"dispatched", "exit"}

Last(msgs) == msgs[Len(msgs)]

\* process_image ran on a decoded image.
Converting == Returned /\ cmdLine.command = "image" /\ image.loaded

\* main has returned after dispatch() gave a failure value.
Failed == pc = "exit" /\ result # <<0>>

\* C1: whenever dispatch() gave a failure value (a handler's, or -1 for an
\* unknown command), the value main returns is not 0.
C1_FailureExitStatus == Failed => exitStatus # <<0>>

\* C2: when the palette file a handler opened gives a palette of no
\* entries, the command returns a failure value, no pixel is converted and
\* neither a .nip nor a .nim file is written.
C2_EmptyPaletteRejected ==
    /\ (pc = "process_image" /\ palFile.exists) => numColours(p) # 0
    /\ (Returned /\ palFile.exists /\ numColours(p) = 0) =>
          /\ result # <<0>>
          /\ s = 0
          /\ outNip = NoFile
          /\ outNim = NoFile

\* The length of the NIP stream whose header is the first six bytes of data.
NipLength(data) ==
    6 + (IF data[5] = 0 THEN 256 ELSE data[5]) * (IF data[6] % 2 = 1 THEN 2 ELSE 1) + 1

\* data starts with "NIP0" and ends before the stream its header announces.
TruncatedNip(data) ==
    /\ Len(data) >= 4
    /\ SubSeq(data, 1, 4) = <<78, 73, 80, 48>>
    /\ (Len(data) < 6 \/ Len(data) < NipLength(data))

\* C3: no palette with entries is constructed from a truncated NIP stream.
C3_TruncatedNipRejected ==
    (palFile.exists /\ TruncatedNip(palFile.data)) => numColours(p) = 0

\* The number of white-space separated words of data from pos on.
RECURSIVE WordCount(_, _)
WordCount(data, pos) ==
    IF SkipWs(data, pos) >= Len(data) THEN 0
    ELSE 1 + WordCount(data, SkipWord(data, SkipWs(data, pos)))

\* The n-th word of data from pos on (n >= 1, n <= WordCount(data, pos)).
RECURSIVE Word(_, _, _)
Word(data, pos, n) ==
    IF n = 1 THEN SubSeq(data, SkipWs(data, pos) + 1, SkipWord(data, SkipWs(data, pos)))
    ELSE Word(data, SkipWord(data, SkipWs(data, pos)), n - 1)

\* data is a JASC-PAL text: the two header words, a count, whole triples.
JascText(data) ==
    /\ WordCount(data, 0) >= 3
    /\ Word(data, 0, 1) = <<74, 65, 83, 67, 45, 80, 65, 76>>
    /\ Word(data, 0, 2) = <<48, 49, 48, 48>>
    /\ stoi(Word(data, 0, 3)).thrown = <<>>
    /\ (WordCount(data, 0) - 3) % 3 = 0

DeclaredCount(data) == stoi(Word(data, 0, 3)).v

TriplesPresent(data) == (WordCount(data, 0) - 3) \div 3

\* C4: a JASC-PAL text whose number of triples differs from the declared
\* count gives a palette of no entries and the count-mismatch message.
C4_CountMismatchRejected ==
    (palFile.exists /\ JascText(palFile.data)
        /\ TriplesPresent(palFile.data) # DeclaredCount(palFile.data)) =>
        /\ numColours(p) = 0
        /\ \E k \in 1..Len(cerr) :
              cerr[k] = "Invalid number of colours found in the palette"

\* C5: an image whose width or height exceeds 65535 is an error: the
\* handler returns a failure value and no .nim file is written.
C5_OversizeRejected ==
    (Converting /\ (image.w > 65535 \/ image.h > 65535)) =>
        /\ result # <<0>>
        /\ outNim = NoFile

\* C6: in 4-bit mode a palette of more than 16 entries is rejected with the
\* palette message and an image of odd width is rejected (with the width
\* message when the palette is small enough); in both cases the handler
\* returns 1, no pixel has been classified and no .nim file is written.
C6_FourBitPreconditions ==
    (Converting /\ "4" \in cmdLine.flags) =>
        /\ numColours(p) > 16 =>
              /\ result = <<1>>
              /\ cerr # <<>> /\ Last(cerr) = "Invalid palette for 4-bit mode"
              /\ s = 0 /\ xs = <<>> /\ dst = <<>>
              /\ outNim = NoFile
        /\ image.w % 2 = 1 =>
              /\ result = <<1>>
              /\ cerr # <<>>
              /\ numColours(p) <= 16 =>
                    Last(cerr) = "Width must be a multiple of 2 for 4-bit mode"
              /\ s = 0 /\ xs = <<>> /\ dst = <<>>
              /\ outNim = NoFile

\* An odd-width image was rejected in 4-bit mode with a palette of 1..16
\* entries.
C6_Witness ==
    /\ Converting /\ "4" \in cmdLine.flags
    /\ image.w % 2 = 1
    /\ numColours(p) \in 1..16
    /\ result = <<1>>
    /\ outNim = NoFile

\* Blue as the standard layout reproduces it: the two bits kept, then the
\* bit derived from them.
StandardBlue(b) ==
    BitOr(Shl(Shr(b, 1), 1), BitOr(Shr(BitAnd(Shr(b, 1), 2), 1), BitAnd(Shr(b, 1), 1)))

\* C7: a palette of 1..256 entries with channels in 0..7, written and read
\* back, has the same number of entries (256 for 256), the same transparent
\* index, the same red and green in every entry, and blue exactly in the
\* extended layout, StandardBlue(blue) in the standard layout.
C7_RoundTrip ==
    codec.stage = "parsed" =>
        /\ numColours(codec.parsed) = numColours(codec.pal)
        /\ getTransColour(codec.parsed) = getTransColour(codec.pal)
        /\ \A k \in 1..numColours(codec.pal) :
              /\ codec.parsed.m_colours[k].m_red = codec.pal.m_colours[k].m_red
              /\ codec.parsed.m_colours[k].m_green = codec.pal.m_colours[k].m_green
              /\ codec.parsed.m_colours[k].m_blue =
                    IF codec.extended THEN codec.pal.m_colours[k].m_blue
                    ELSE StandardBlue(codec.pal.m_colours[k].m_blue)

\* A 256-entry palette went through the standard layout, which changed the
\* blue of one of its entries.
C7_Witness ==
    /\ codec.stage = "parsed"
    /\ numColours(codec.pal) = 256
    /\ numColours(codec.parsed) = 256
    /\ ~codec.extended
    /\ \E k \in 1..256 :
          codec.parsed.m_colours[k].m_blue # codec.pal.m_colours[k].m_blue

\* The lowest index of table (counted from 0) at the least distance from v.
LowestNearest(v, table) ==
    CHOOSE i \in 0..(Len(table) - 1) :
        /\ \A j \in 0..(Len(table) - 1) : Abs(v - table[i + 1]) <= Abs(v - table[j + 1])
        /\ \A j \in 0..(i - 1) : Abs(v - table[j + 1]) > Abs(v - table[i + 1])

\* C8: for every v in 0..255 gfxReduce3(v) is the lowest index of
\* {0,36,73,109,146,182,219,255} at the least distance from v, and
\* gfxReduce2(v) the lowest index of {0,85,170,255} at the least distance.
C8_NearestLevel ==
    /\ quant.stage \in {"reduced3", "reduced"} =>
          quant.r3 = LowestNearest(quant.v, <<0, 36, 73, 109, 146, 182, 219, 255>>)
    /\ quant.stage = "reduced" =>
          quant.r2 = LowestNearest(quant.v, <<0, 85, 170, 255>>)

\* A value at the same distance from two levels was reduced to the lower.
C8_Witness ==
    /\ quant.stage = "reduced"
    /\ \E i \in 1..7 :
          /\ quant.v - kColour_3bit[i] = kColour_3bit[i + 1] - quant.v
          /\ quant.r3 = i - 1

\* The palette indices the search may choose.
Candidates(q) == {i \in 0..(numColours(q) - 1) : i # getTransColour(q)}

\* The squared distance between entry i of q and the pixel px.
Distance(q, i, px) ==
    LET level == <<0, 36, 73, 109, 146, 182, 219, 255>>
        dr == level[q.m_colours[i + 1].m_red + 1] - px[1]
        dg == level[q.m_colours[i + 1].m_green + 1] - px[2]
        db == level[q.m_colours[i + 1].m_blue + 1] - px[3]
    IN  dr * dr + dg * dg + db * db

\* i is the lowest candidate of q at the least distance from px.
LowestNearestEntry(q, px, i) ==
    /\ i \in Candidates(q)
    /\ \A j \in Candidates(q) :
          /\ Distance(q, i, px) <= Distance(q, j, px)
          /\ j < i => Distance(q, j, px) > Distance(q, i, px)

\* C9: every pixel whose alpha is not 255 is given the transparent index,
\* and every pixel of alpha 255 the lowest index, other than the
\* transparent index, at the least squared distance from its r, g, b.
C9_Classification ==
    Converting =>
        \A k \in 1..Len(xs) :
            IF PixelAt(image, k - 1)[4] # 255
            THEN xs[k] = getTransColour(p)
            ELSE LowestNearestEntry(p, PixelAt(image, k - 1), xs[k])

\* C10: in 4-bit mode each pair of pixels (even column, odd column) gives
\* one byte, high nibble the index of the even column and low nibble the
\* index of the odd column; in 8-bit mode dst is the indices in order.
\* Stated for the conversions with a palette that has entries, in which no
\* indeterminate value is read.
C10_Packing ==
    (Converting /\ s > 0 /\ numColours(p) > 0 /\ ~ub) =>
        IF "4" \in cmdLine.flags
        THEN /\ Len(xs) = 2 * Len(dst)
             /\ \A k \in 1..Len(dst) :
                   /\ dst[k] \div 16 = xs[2 * k - 1]
                   /\ dst[k] % 16 = xs[2 * k]
        ELSE dst = xs

\* The decoded image passes the 4-bit preconditions of the command line.
PassesPreconditions ==
    /\ image.loaded
    /\ "4" \in cmdLine.flags => (numColours(p) <= 16 /\ image.w % 2 = 0)

\* C11: for every conversion that passes the 4-bit preconditions the assert
\* on dst.size() holds: every pixel was consumed and dst holds width*height
\* bytes in 8-bit mode, width*height/2 bytes in 4-bit mode.
C11_BufferLength ==
    PassesPreconditions =>
        /\ pc # "aborted"
        /\ s = image.w * image.h
        /\ Len(dst) = IF "4" \in cmdLine.flags
                      THEN (image.w * image.h) \div 2
                      ELSE image.w * image.h

\* A 4-bit conversion of more than one row has passed the assert.
C11_Witness ==
    /\ Returned
    /\ PassesPreconditions
    /\ "4" \in cmdLine.flags
    /\ image.h > 1
    /\ Len(dst) = (image.w * image.h) \div 2
    /\ Len(dst) > 1

\* data is a whole NIP stream.
WholeNip(data) ==
    /\ Len(data) >= 6
    /\ SubSeq(data, 1, 4) = <<78, 73, 80, 48>>
    /\ Len(data) >= NipLength(data)

\* The palette command wrote a .nip file and was given no --transparent.
WroteWithoutOverride ==
    /\ cmdLine.command = "palette"
    /\ cmdLine.transparent = <<>>
    /\ outNip.exists

\* C12: without --transparent, the transparent index byte the palette
\* command writes is the one read from the NIP file it converts, and 0xE3
\* for the built-in palette and for a JASC-PAL palette.
C12_TransparentKept ==
    WroteWithoutOverride =>
        /\ ("d" \notin cmdLine.flags /\ palFile.exists /\ WholeNip(palFile.data)) =>
              Last(outNip.data) = palFile.data[NipLength(palFile.data)]
        /\ ("d" \in cmdLine.flags \/ (palFile.exists /\ JascText(palFile.data))) =>
              Last(outNip.data) = 227

\* C13: in every conversion with a palette that has entries, every pixel of
\* alpha 255 is given the index of a populated entry (0 <= x < entry count)
\* that differs from the transparent index.
C13_SearchAssigns ==
    (Converting /\ numColours(p) > 0) =>
        \A k \in 1..Len(xs) :
            PixelAt(image, k - 1)[4] = 255 =>
                /\ xs[k] \in 0..(numColours(p) - 1)
                /\ xs[k] # getTransColour(p)

=============================================================================
